---- MODULE Spec2Model ----
(***************************************************************************)
(* botocore/exceptions.py: the BotoCoreError hierarchy.  Every class has a  *)
(* class attribute fmt; BotoCoreError.__init__ renders fmt with the keyword *)
(* arguments once, hands the text to Exception.__init__ and keeps the       *)
(* keyword map in self.kwargs.  Strings are sequences of one-character      *)
(* strings, so that formatting, containment and str() are computed.         *)
(***************************************************************************)
EXTENDS Integers, Sequences, FiniteSets, TLC

\* ---------------------------------------------------------------- field names
\* The keyword names used by the templates, spelled as character sequences.
k_data_path == <<"d", "a", "t", "a", "_", "p", "a", "t", "h">>
k_env_var == <<"e", "n", "v", "_", "v", "a", "r">>
k_signature_version == <<"s", "i", "g", "n", "a", "t", "u", "r", "e", "_", "v", "e", "r", "s", "i", "o", "n">>
k_service_name == <<"s", "e", "r", "v", "i", "c", "e", "_", "n", "a", "m", "e">>
k_region_name == <<"r", "e", "g", "i", "o", "n", "_", "n", "a", "m", "e">>
k_profile == <<"p", "r", "o", "f", "i", "l", "e">>
k_path == <<"p", "a", "t", "h">>
k_object_name == <<"o", "b", "j", "e", "c", "t", "_", "n", "a", "m", "e">>
k_missing == <<"m", "i", "s", "s", "i", "n", "g">>
k_value == <<"v", "a", "l", "u", "e">>
k_param == <<"p", "a", "r", "a", "m">>
k_type_name == <<"t", "y", "p", "e", "_", "n", "a", "m", "e">>
k_choices == <<"c", "h", "o", "i", "c", "e", "s">>
k_min_value == <<"m", "i", "n", "_", "v", "a", "l", "u", "e">>
k_max_value == <<"m", "a", "x", "_", "v", "a", "l", "u", "e">>
k_name == <<"n", "a", "m", "e">>
k_operation == <<"o", "p", "e", "r", "a", "t", "i", "o", "n">>
k_service_style == <<"s", "e", "r", "v", "i", "c", "e", "_", "s", "t", "y", "l", "e">>
k_message == <<"m", "e", "s", "s", "a", "g", "e">>
k_event_name == <<"e", "v", "e", "n", "t", "_", "n", "a", "m", "e">>
k_checksum_type == <<"c", "h", "e", "c", "k", "s", "u", "m", "_", "t", "y", "p", "e">>
k_expected_checksum == <<"e", "x", "p", "e", "c", "t", "e", "d", "_", "c", "h", "e", "c", "k", "s", "u", "m">>
k_actual_checksum == <<"a", "c", "t", "u", "a", "l", "_", "c", "h", "e", "c", "k", "s", "u", "m">>
k_stream_object == <<"s", "t", "r", "e", "a", "m", "_", "o", "b", "j", "e", "c", "t">>
k_reason == <<"r", "e", "a", "s", "o", "n">>
k_actual_bytes == <<"a", "c", "t", "u", "a", "l", "_", "b", "y", "t", "e", "s">>
k_expected_bytes == <<"e", "x", "p", "e", "c", "t", "e", "d", "_", "b", "y", "t", "e", "s">>
k_expression == <<"e", "x", "p", "r", "e", "s", "s", "i", "o", "n">>
k_other == <<"o", "t", "h", "e", "r">>
\* The name of the receiver parameter of __init__.
k_self == <<"s", "e", "l", "f">>

\* ------------------------------------------------------------------ templates
\* The fmt class attributes, character by character.
fmt_BotoCoreError ==
    <<"A", "n", " ", "u", "n", "s", "p", "e", "c", "i", "f", "i", "e", "d",
      " ", "e", "r", "r", "o", "r", " ", "o", "c", "c", "u", "r", "e", "d">>

fmt_DataNotFoundError ==
    <<"U", "n", "a", "b", "l", "e", " ", "t", "o", " ", "l", "o", "a", "d",
      " ", "d", "a", "t", "a", " ", "f", "o", "r", ":", " ", "{", "d", "a",
      "t", "a", "_", "p", "a", "t", "h", "}">>

fmt_NoCredentialsError ==
    <<"U", "n", "a", "b", "l", "e", " ", "t", "o", " ", "l", "o", "c", "a",
      "t", "e", " ", "c", "r", "e", "d", "e", "n", "t", "i", "a", "l", "s">>

fmt_NoRegionError ==
    <<"Y", "o", "u", " ", "m", "u", "s", "t", " ", "s", "p", "e", "c", "i",
      "f", "y", " ", "a", " ", "r", "e", "g", "i", "o", "n", " ", "o", "r",
      " ", "s", "e", "t", " ", "t", "h", "e", " ", "{", "e", "n", "v", "_",
      "v", "a", "r", "}", " ", "e", "n", "v", "i", "r", "o", "n", "m", "e",
      "n", "t", " ", "v", "a", "r", "i", "a", "b", "l", "e", ".">>

fmt_UnknownSignatureVersionError ==
    <<"U", "n", "k", "n", "o", "w", "n", " ", "S", "i", "g", "n", "a", "t",
      "u", "r", "e", " ", "V", "e", "r", "s", "i", "o", "n", ":", " ", "{",
      "s", "i", "g", "n", "a", "t", "u", "r", "e", "_", "v", "e", "r", "s",
      "i", "o", "n", "}", ".">>

fmt_ServiceNotInRegionError ==
    <<"S", "e", "r", "v", "i", "c", "e", " ", "{", "s", "e", "r", "v", "i",
      "c", "e", "_", "n", "a", "m", "e", "}", " ", "n", "o", "t", " ", "a",
      "v", "a", "i", "l", "a", "b", "l", "e", " ", "i", "n", " ", "r", "e",
      "g", "i", "o", "n", " ", "{", "r", "e", "g", "i", "o", "n", "_", "n",
      "a", "m", "e", "}">>

fmt_ProfileNotFound ==
    <<"T", "h", "e", " ", "c", "o", "n", "f", "i", "g", " ", "p", "r", "o",
      "f", "i", "l", "e", " ", "(", "{", "p", "r", "o", "f", "i", "l", "e",
      "}", ")", " ", "c", "o", "u", "l", "d", " ", "n", "o", "t", " ", "b",
      "e", " ", "f", "o", "u", "n", "d">>

fmt_ConfigParseError ==
    <<"U", "n", "a", "b", "l", "e", " ", "t", "o", " ", "p", "a", "r", "s",
      "e", " ", "c", "o", "n", "f", "i", "g", " ", "f", "i", "l", "e", ":",
      " ", "{", "p", "a", "t", "h", "}">>

fmt_ConfigNotFound ==
    <<"T", "h", "e", " ", "s", "p", "e", "c", "i", "f", "i", "e", "d", " ",
      "c", "o", "n", "f", "i", "g", " ", "f", "i", "l", "e", " ", "(", "{",
      "p", "a", "t", "h", "}", ")", " ", "c", "o", "u", "l", "d", " ", "n",
      "o", "t", " ", "b", "e", " ", "f", "o", "u", "n", "d", ".">>

fmt_MissingParametersError ==
    <<"T", "h", "e", " ", "f", "o", "l", "l", "o", "w", "i", "n", "g", " ",
      "r", "e", "q", "u", "i", "r", "e", "d", " ", "p", "a", "r", "a", "m",
      "e", "t", "e", "r", "s", " ", "a", "r", "e", " ", "m", "i", "s", "s",
      "i", "n", "g", " ", "f", "o", "r", " ", "{", "o", "b", "j", "e", "c",
      "t", "_", "n", "a", "m", "e", "}", ":", " ", "{", "m", "i", "s", "s",
      "i", "n", "g", "}">>

fmt_ValidationError ==
    <<"I", "n", "v", "a", "l", "i", "d", " ", "v", "a", "l", "u", "e", " ",
      "(", "'", "{", "v", "a", "l", "u", "e", "}", "'", ")", " ", "f", "o",
      "r", " ", "p", "a", "r", "a", "m", " ", "{", "p", "a", "r", "a", "m",
      "}", " ", "o", "f", " ", "t", "y", "p", "e", " ", "{", "t", "y", "p",
      "e", "_", "n", "a", "m", "e", "}", " ">>

fmt_UnknownKeyError ==
    <<"U", "n", "k", "n", "o", "w", "n", " ", "k", "e", "y", " ", "'", "{",
      "v", "a", "l", "u", "e", "}", "'", " ", "f", "o", "r", " ", "p", "a",
      "r", "a", "m", " ", "'", "{", "p", "a", "r", "a", "m", "}", "'", ".",
      " ", " ", "M", "u", "s", "t", " ", "b", "e", " ", "o", "n", "e", " ",
      "o", "f", ":", " ", "{", "c", "h", "o", "i", "c", "e", "s", "}">>

\* A mutated template: the value and the minimum change places.
fmt_RangeErrorSwapped ==
    <<"V", "a", "l", "u", "e", " ", "o", "u", "t", " ", "o", "f", " ", "r",
      "a", "n", "g", "e", " ", "f", "o", "r", " ", "p", "a", "r", "a", "m",
      " ", "{", "p", "a", "r", "a", "m", "}", ":", " ", "{", "v", "a", "l",
      "u", "e", "}", " ", "<", "=", " ", "{", "m", "i", "n", "_", "v", "a",
      "l", "u", "e", "}", " ", "<", "=", " ", "{", "m", "a", "x", "_", "v",
      "a", "l", "u", "e", "}">>

fmt_RangeError ==
    <<"V", "a", "l", "u", "e", " ", "o", "u", "t", " ", "o", "f", " ", "r",
      "a", "n", "g", "e", " ", "f", "o", "r", " ", "p", "a", "r", "a", "m",
      " ", "{", "p", "a", "r", "a", "m", "}", ":", " ", "{", "m", "i", "n",
      "_", "v", "a", "l", "u", "e", "}", " ", "<", "=", " ", "{", "v", "a",
      "l", "u", "e", "}", " ", "<", "=", " ", "{", "m", "a", "x", "_", "v",
      "a", "l", "u", "e", "}">>

fmt_UnknownParameterError ==
    <<"U", "n", "k", "n", "o", "w", "n", " ", "p", "a", "r", "a", "m", "e",
      "t", "e", "r", " ", "'", "{", "n", "a", "m", "e", "}", "'", " ", "f",
      "o", "r", " ", "o", "p", "e", "r", "a", "t", "i", "o", "n", " ", "{",
      "o", "p", "e", "r", "a", "t", "i", "o", "n", "}", ".", " ", " ", "M",
      "u", "s", "t", " ", "b", "e", " ", "o", "n", "e", " ", "o", "f", ":",
      " ", "{", "c", "h", "o", "i", "c", "e", "s", "}">>

fmt_UnknownServiceStyle ==
    <<"T", "h", "e", " ", "s", "e", "r", "v", "i", "c", "e", " ", "s", "t",
      "y", "l", "e", " ", "(", "{", "s", "e", "r", "v", "i", "c", "e", "_",
      "s", "t", "y", "l", "e", "}", ")", " ", "i", "s", " ", "n", "o", "t",
      " ", "u", "n", "d", "e", "r", "s", "t", "o", "o", "d", ".">>

fmt_PaginationError ==
    <<"E", "r", "r", "o", "r", " ", "d", "u", "r", "i", "n", "g", " ", "p",
      "a", "g", "i", "n", "a", "t", "i", "o", "n", ":", " ", "{", "m", "e",
      "s", "s", "a", "g", "e", "}">>

fmt_EventNotFound ==
    <<"T", "h", "e", " ", "e", "v", "e", "n", "t", " ", "(", "{", "e", "v",
      "e", "n", "t", "_", "n", "a", "m", "e", "}", ")", " ", "i", "s", " ",
      "n", "o", "t", " ", "k", "n", "o", "w", "n">>

fmt_ChecksumError ==
    <<"C", "h", "e", "c", "k", "s", "u", "m", " ", "{", "c", "h", "e", "c",
      "k", "s", "u", "m", "_", "t", "y", "p", "e", "}", " ", "f", "a", "i",
      "l", "e", "d", ",", " ", "e", "x", "p", "e", "c", "t", "e", "d", " ",
      "c", "h", "e", "c", "k", "s", "u", "m", " ", "{", "e", "x", "p", "e",
      "c", "t", "e", "d", "_", "c", "h", "e", "c", "k", "s", "u", "m", "}",
      " ", "d", "i", "d", " ", "n", "o", "t", " ", "m", "a", "t", "c", "h",
      " ", "c", "a", "l", "c", "u", "l", "a", "t", "e", "d", " ", "c", "h",
      "e", "c", "k", "s", "u", "m", " ", "{", "a", "c", "t", "u", "a", "l",
      "_", "c", "h", "e", "c", "k", "s", "u", "m", "}", ".">>

fmt_UnseekableStreamError ==
    <<"N", "e", "e", "d", " ", "t", "o", " ", "r", "e", "w", "i", "n", "d",
      " ", "t", "h", "e", " ", "s", "t", "r", "e", "a", "m", " ", "{", "s",
      "t", "r", "e", "a", "m", "_", "o", "b", "j", "e", "c", "t", "}", ",",
      " ", "b", "u", "t", " ", "s", "t", "r", "e", "a", "m", " ", "i", "s",
      " ", "n", "o", "t", " ", "s", "e", "e", "k", "a", "b", "l", "e", ".">>

fmt_WaiterError ==
    <<"W", "a", "i", "t", "e", "r", " ", "{", "n", "a", "m", "e", "}", " ",
      "f", "a", "i", "l", "e", "d", ":", " ", "{", "r", "e", "a", "s", "o",
      "n", "}">>

fmt_IncompleteReadError ==
    <<"{", "a", "c", "t", "u", "a", "l", "_", "b", "y", "t", "e", "s", "}",
      " ", "r", "e", "a", "d", ",", " ", "b", "u", "t", " ", "t", "o", "t",
      "a", "l", " ", "b", "y", "t", "e", "s", " ", "e", "x", "p", "e", "c",
      "t", "e", "d", " ", "i", "s", " ", "{", "e", "x", "p", "e", "c", "t",
      "e", "d", "_", "b", "y", "t", "e", "s", "}", ".">>

fmt_InvalidExpressionError ==
    <<"I", "n", "v", "a", "l", "i", "d", " ", "e", "x", "p", "r", "e", "s",
      "s", "i", "o", "n", " ", "{", "e", "x", "p", "r", "e", "s", "s", "i",
      "o", "n", "}", ":", " ", "O", "n", "l", "y", " ", "d", "o", "t", "t",
      "e", "d", " ", "l", "o", "o", "k", "u", "p", "s", " ", "a", "r", "e",
      " ", "s", "u", "p", "p", "o", "r", "t", "e", "d", ".">>

fmt_UnknownCredentialError ==
    <<"C", "r", "e", "d", "e", "n", "t", "i", "a", "l", " ", "n", "a", "m",
      "e", "d", " ", "{", "n", "a", "m", "e", "}", " ", "n", "o", "t", " ",
      "f", "o", "u", "n", "d", ".">>

\* The fmt attribute each class body defines itself.
ClassFmt ==
    [BotoCoreError |-> fmt_BotoCoreError,
     DataNotFoundError |-> fmt_DataNotFoundError,
     NoCredentialsError |-> fmt_NoCredentialsError,
     NoRegionError |-> fmt_NoRegionError,
     UnknownSignatureVersionError |-> fmt_UnknownSignatureVersionError,
     ServiceNotInRegionError |-> fmt_ServiceNotInRegionError,
     ProfileNotFound |-> fmt_ProfileNotFound,
     ConfigParseError |-> fmt_ConfigParseError,
     ConfigNotFound |-> fmt_ConfigNotFound,
     MissingParametersError |-> fmt_MissingParametersError,
     ValidationError |-> fmt_ValidationError,
     UnknownKeyError |-> fmt_UnknownKeyError,
     RangeError |-> fmt_RangeError,
     UnknownParameterError |-> fmt_UnknownParameterError,
     UnknownServiceStyle |-> fmt_UnknownServiceStyle,
     PaginationError |-> fmt_PaginationError,
     EventNotFound |-> fmt_EventNotFound,
     ChecksumError |-> fmt_ChecksumError,
     UnseekableStreamError |-> fmt_UnseekableStreamError,
     WaiterError |-> fmt_WaiterError,
     IncompleteReadError |-> fmt_IncompleteReadError,
     InvalidExpressionError |-> fmt_InvalidExpressionError,
     UnknownCredentialError |-> fmt_UnknownCredentialError]

\* A mutated hierarchy: RangeError derives from BotoCoreError directly.
BasesRangeFlat ==
    [c \in DOMAIN ClassFmt |->
        IF c = "BotoCoreError" THEN "Exception"
        ELSE IF c \in {"UnknownKeyError", "UnknownParameterError"}
        THEN "ValidationError"
        ELSE "BotoCoreError"]

\* A mutated hierarchy: MissingParametersError derives from ValidationError.
BasesMissingValidation ==
    [c \in DOMAIN ClassFmt |->
        IF c = "BotoCoreError" THEN "Exception"
        ELSE IF c \in {"UnknownKeyError", "RangeError", "UnknownParameterError",
                       "MissingParametersError"}
        THEN "ValidationError"
        ELSE "BotoCoreError"]

\* class X(Base): the single base class of every class of the module.
Bases ==
    [BotoCoreError |-> "Exception",
     DataNotFoundError |-> "BotoCoreError",
     NoCredentialsError |-> "BotoCoreError",
     NoRegionError |-> "BotoCoreError",
     UnknownSignatureVersionError |-> "BotoCoreError",
     ServiceNotInRegionError |-> "BotoCoreError",
     ProfileNotFound |-> "BotoCoreError",
     ConfigParseError |-> "BotoCoreError",
     ConfigNotFound |-> "BotoCoreError",
     MissingParametersError |-> "BotoCoreError",
     ValidationError |-> "BotoCoreError",
     UnknownKeyError |-> "ValidationError",
     RangeError |-> "ValidationError",
     UnknownParameterError |-> "ValidationError",
     UnknownServiceStyle |-> "BotoCoreError",
     PaginationError |-> "BotoCoreError",
     EventNotFound |-> "BotoCoreError",
     ChecksumError |-> "BotoCoreError",
     UnseekableStreamError |-> "BotoCoreError",
     WaiterError |-> "BotoCoreError",
     IncompleteReadError |-> "BotoCoreError",
     InvalidExpressionError |-> "BotoCoreError",
     UnknownCredentialError |-> "BotoCoreError"]

\* ---------------------------------------------------------------- the classes
Classes == DOMAIN Bases

\* The method resolution order of single inheritance: c, its base, ... up to
\* (and excluding what lies above) Exception.
RECURSIVE Mro(_)
Mro(c) == IF c \in DOMAIN Bases THEN <<c>> \o Mro(Bases[c]) ELSE <<c>>

\* issubclass(c, h): h occurs in the method resolution order of c.
IsSubclass(c, h) == \E i \in 1..Len(Mro(c)) : Mro(c)[i] = h

\* A mutated attribute lookup: a subclass of ValidationError renders with the
\* template of ValidationError instead of its own.
RECURSIVE FmtInherited(_)
FmtInherited(c) ==
    IF c # "ValidationError" /\ IsSubclass(c, "ValidationError")
    THEN ClassFmt["ValidationError"]
    ELSE IF c \in DOMAIN ClassFmt THEN ClassFmt[c] ELSE FmtInherited(Bases[c])

\* self.fmt: the attribute of the first class of the method resolution order
\* whose body defines it.
RECURSIVE ResolveFmt(_)
ResolveFmt(c) == IF c \in DOMAIN ClassFmt THEN ClassFmt[c] ELSE ResolveFmt(Bases[c])

\* ------------------------------------------------------------------- values
\* Python values passed as keyword arguments: ints and strs.  Absent is the
\* outcome of looking a name up that is no key of a dict (n in d is False,
\* d.get(n) is None).
IntV(n) == [t |-> "int", i |-> n, s |-> <<>>]
StrV(x) == [t |-> "str", i |-> 0, s |-> x]
Absent == [t |-> "Absent", i |-> 0, s |-> <<>>]

Digits == <<"0", "1", "2", "3", "4", "5", "6", "7", "8", "9">>

\* str(n) of an int: decimal digits, most significant first, "-" when negative.
RECURSIVE IntStr(_)
IntStr(n) ==
    IF n < 0 THEN <<"-">> \o IntStr(0 - n)
    ELSE IF n < 10 THEN <<Digits[n + 1]>>
    ELSE IntStr(n \div 10) \o <<Digits[(n % 10) + 1]>>

\* format(value, ''), which is str(value) for these types.
Str(v) ==
    IF v.t = "int" THEN IntStr(v.i)
    ELSE IF v.t = "str" THEN v.s
    ELSE <<"N", "o", "n", "e">>

\* ------------------------------------------------------------- str.format
FormatOk(text) == [err |-> "", text |-> text, key |-> <<>>]
KeyError(name) == [err |-> "KeyError", text |-> <<>>, key |-> name]
ValueError == [err |-> "ValueError", text |-> <<>>, key |-> <<>>]
TypeError == [err |-> "TypeError", text |-> <<>>, key |-> <<>>]

\* f.find(ch, i): the index of the first ch of f at or after i, 0 when there
\* is none.
Find(f, ch, i) ==
    LET at == {k \in i..Len(f) : f[k] = ch}
    IN  IF at = {} THEN 0 ELSE CHOOSE k \in at : \A m \in at : k <= m

\* A mutated scan: a replacement field whose name is not a keyword renders as
\* the empty string instead of raising.
RECURSIVE FormatDefaulting(_, _, _)
FormatDefaulting(f, kw, i) ==
    LET open == Find(f, "{", i)
        close == Find(f, "}", open + 1)
        name == SubSeq(f, open + 1, close - 1)
        rest == FormatDefaulting(f, kw, close + 1)
    IN  IF open = 0 THEN FormatOk(SubSeq(f, i, Len(f)))
        ELSE IF close = 0 THEN ValueError
        ELSE IF rest.err # "" THEN rest
        ELSE IF name \notin DOMAIN kw
        THEN FormatOk(SubSeq(f, i, open - 1) \o rest.text)
        ELSE FormatOk(SubSeq(f, i, open - 1) \o Str(kw[name]) \o rest.text)

\* A mutated scan: a substituted value is itself formatted with the remaining
\* keywords, so placeholder text inside a value is expanded too.
RECURSIVE FormatRescan(_, _, _)
FormatRescan(f, kw, i) ==
    LET open == Find(f, "{", i)
        close == Find(f, "}", open + 1)
        name == SubSeq(f, open + 1, close - 1)
        value == FormatRescan(Str(kw[name]), [n \in DOMAIN kw \ {name} |-> kw[n]], 1)
        rest == FormatRescan(f, kw, close + 1)
    IN  IF open = 0 THEN FormatOk(SubSeq(f, i, Len(f)))
        ELSE IF close = 0 THEN ValueError
        ELSE IF name \notin DOMAIN kw THEN KeyError(name)
        ELSE IF value.err # "" THEN value
        ELSE IF rest.err # "" THEN rest
        ELSE FormatOk(SubSeq(f, i, open - 1) \o value.text \o rest.text)

\* A mutated scan: only the first replacement field is substituted, the rest
\* of the template is copied as it stands.
FormatFirstField(f, kw, i) ==
    LET open == Find(f, "{", i)
        close == Find(f, "}", open + 1)
        name == SubSeq(f, open + 1, close - 1)
    IN  IF open = 0 THEN FormatOk(SubSeq(f, i, Len(f)))
        ELSE IF close = 0 THEN ValueError
        ELSE IF name \notin DOMAIN kw THEN KeyError(name)
        ELSE FormatOk(SubSeq(f, i, open - 1) \o Str(kw[name])
                      \o SubSeq(f, close + 1, Len(f)))

\* fmt.format of the keywords kw, from position i of f on: the literal text up
\* to the next "{" is copied; the replacement field {name} is looked up among
\* the keywords and rendered with format(value, ''); the first name that is no
\* keyword raises KeyError(name).  The scan resumes after the "}" of the
\* template, so substituted text is never scanned.  (The templates use neither
\* brace escapes nor conversions nor format specs, and neither does the scan.)
RECURSIVE Format(_, _, _)
Format(f, kw, i) ==
    LET open == Find(f, "{", i)
        close == Find(f, "}", open + 1)
        name == SubSeq(f, open + 1, close - 1)
        rest == Format(f, kw, close + 1)
    IN  IF open = 0 THEN FormatOk(SubSeq(f, i, Len(f)))
        ELSE IF close = 0 THEN ValueError
        ELSE IF name \notin DOMAIN kw THEN KeyError(name)
        ELSE IF rest.err # "" THEN rest
        ELSE FormatOk(SubSeq(f, i, open - 1) \o Str(kw[name]) \o rest.text)

\* The names of the replacement fields of f from position i on.
RECURSIVE FieldNamesFrom(_, _)
FieldNamesFrom(f, i) ==
    LET open == Find(f, "{", i)
        close == Find(f, "}", open + 1)
    IN  IF open = 0 \/ close = 0 THEN {}
        ELSE {SubSeq(f, open + 1, close - 1)} \cup FieldNamesFrom(f, close + 1)

\* The replacement fields of the template each class renders with.
Placeholders == [c \in Classes |-> FieldNamesFrom(ResolveFmt(c), 1)]

\* ------------------------------------------------------------------- inputs
v_Count == <<"C", "o", "u", "n", "t">>
v_BraceParam == <<"{", "p", "a", "r", "a", "m", "}">>

\* The keyword values the callers are given to choose from: a plain str, three
\* ints, and a str that is itself placeholder text.
Values == {StrV(v_Count), IntV(1), IntV(10), IntV(50), StrV(v_BraceParam)}

\* Keyword names beyond those of a template: one that no template uses, one
\* that only the validation templates use, and the name of the receiver
\* parameter of __init__ itself.
ExtraNames == {k_other, k_param, k_self}

\* The keyword names a call of class c is given to choose from.
Pool(c) == Placeholders[c] \cup ExtraNames

\* Every keyword map over a subset of names.
KeywordMaps(names) == UNION {[D -> Values] : D \in SUBSET names}

\* -------------------------------------------------------------------- state
VARIABLES
    cls,     \* the class being instantiated: cls with keywords args
    args,    \* the keyword arguments of the call
    pc,      \* "call" before __init__ ran, then "instance" or "raised" (by
             \* __init__); "handled" once the instance was raised and caught
    fault,   \* what __init__ raised instead of returning
    msg,     \* the instance's Exception args[0], set by Exception.__init__
    kwargs,  \* the instance's self.kwargs
    last,    \* the last operation applied to the instance, with its result
    nmut     \* how many times self.kwargs was written after construction

vars == <<cls, args, pc, fault, msg, kwargs, last, nmut>>

NoFault == [type |-> "", key |-> <<>>]
NoKwargs == [n \in {} |-> Absent]
NoOp == [op |-> "", name |-> <<>>, val |-> Absent, text |-> <<>>,
         chain |-> <<>>, idx |-> 0]

Start(c, a) ==
    /\ cls = c
    /\ args = a
    /\ pc = "call"
    /\ fault = NoFault
    /\ msg = <<>>
    /\ kwargs = NoKwargs
    /\ last = NoOp
    /\ nmut = 0

\* Any class of the module called with any keyword map over its pool.
Init == \E c \in Classes : \E a \in KeywordMaps(Pool(c)) : Start(c, a)

\* A mutated retention: only the keywords the template uses are kept.
RetainUsed(c, kw) == [n \in DOMAIN kw \cap Placeholders[c] |-> kw[n]]

\* A mutated retention: the values are kept in their rendered form.
RetainRendered(c, kw) == [n \in DOMAIN kw |-> StrV(Str(kw[n]))]

\* self.kwargs = kwargs: the keyword map itself is kept.
Retain(c, kw) == kw

\* Binding the call to def __init__(self, **kwargs): the instance is bound to
\* self positionally, so a keyword named self gives the parameter a second
\* value and the call raises TypeError before the body runs; every other
\* keyword is collected in kwargs.
Bind(kw) == IF k_self \in DOMAIN kw THEN TypeError ELSE FormatOk(<<>>)

\* BotoCoreError.__init__: bind the call, render, initialise the Exception
\* with the text, keep the keywords.  When the binding or format raises
\* nothing is assigned and the exception leaves the constructor.
Construct ==
    /\ pc = "call"
    /\ LET r == IF Bind(args).err # "" THEN Bind(args)
                ELSE Format(ResolveFmt(cls), args, 1)
       IN  IF r.err = ""
           THEN /\ pc' = "instance"
                /\ msg' = r.text
                /\ kwargs' = Retain(cls, args)
                /\ fault' = fault
           ELSE /\ pc' = "raised"
                /\ fault' = [type |-> r.err, key |-> r.key]
                /\ UNCHANGED <<msg, kwargs>>
    /\ UNCHANGED <<cls, args, last, nmut>>

\* A mutated conversion: the text is rendered again from the current keywords.
ExcStrRecomputed(c, m, kw) == Format(ResolveFmt(c), kw, 1).text

\* str(e): Exception.__str__ with the single argument given by __init__ is
\* that argument; BotoCoreError defines no __str__ of its own.
ExcStr(c, m, kw) == m

StrConv ==
    /\ pc = "instance"
    /\ last' = [NoOp EXCEPT !.op = "str", !.text = ExcStr(cls, msg, kwargs)]
    /\ UNCHANGED <<cls, args, pc, fault, msg, kwargs, nmut>>

\* A lookup of n in e.kwargs: the value kept under n, Absent when n is no key
\* of the dict.
DictGet(kw, n) == IF n \in DOMAIN kw THEN kw[n] ELSE Absent

FieldAccess ==
    /\ pc = "instance"
    /\ \E n \in Pool(cls) :
           last' = [NoOp EXCEPT !.op = "get", !.name = n,
                                !.val = DictGet(kwargs, n)]
    /\ UNCHANGED <<cls, args, pc, fault, msg, kwargs, nmut>>

\* An except clause names a class of the module or Exception itself.
HandlerClasses == Classes \cup {"Exception"}

\* The longest chain of except clauses tried.
MaxHandlers == 2

HandlerChains == UNION {[1..k -> HandlerClasses] : k \in 1..MaxHandlers}

\* try: raise e / except chain[1]: ... / except chain[2]: ...  The first
\* clause whose class the instance is an instance of receives it; 0 when no
\* clause matches and the exception propagates.  Either way the raise is over.
Handler(c, chain) ==
    LET hit == {k \in 1..Len(chain) : IsSubclass(c, chain[k])}
    IN  IF hit = {} THEN 0 ELSE CHOOSE k \in hit : \A m \in hit : k <= m

Raise ==
    /\ pc = "instance"
    /\ pc' = "handled"
    /\ \E chain \in HandlerChains :
           last' = [NoOp EXCEPT !.op = "catch", !.chain = chain,
                                !.idx = Handler(cls, chain)]
    /\ UNCHANGED <<cls, args, fault, msg, kwargs, nmut>>

\* How many writes to self.kwargs are followed.
MaxMutations == 1

\* e.kwargs[n] = v: self.kwargs is an ordinary dict and a public attribute.
SetItem ==
    /\ pc = "instance"
    /\ nmut < MaxMutations
    /\ \E n \in Pool(cls) : \E v \in Values :
           /\ kwargs' = [m \in DOMAIN kwargs \cup {n} |->
                            IF m = n THEN v ELSE kwargs[m]]
           /\ last' = [NoOp EXCEPT !.op = "set", !.name = n, !.val = v]
    /\ nmut' = nmut + 1
    /\ UNCHANGED <<cls, args, pc, fault, msg>>

\* del e.kwargs[n]
DelItem ==
    /\ pc = "instance"
    /\ nmut < MaxMutations
    /\ \E n \in DOMAIN kwargs :
           /\ kwargs' = [m \in DOMAIN kwargs \ {n} |-> kwargs[m]]
           /\ last' = [NoOp EXCEPT !.op = "del", !.name = n]
    /\ nmut' = nmut + 1
    /\ UNCHANGED <<cls, args, pc, fault, msg>>

\* ----------------------------------------------------------- specifications
\* Construction and the two read-only operations on the instance.
Next ==
    \/ Construct
    \/ StrConv
    \/ FieldAccess

Spec == Init /\ [][Next]_vars

\* Raising the instance into a chain of except clauses.  The outcome depends
\* on the class alone, so every class is called once, with its replacement
\* fields all given the same value.
InitRaise ==
    \E c \in Classes : Start(c, [n \in Placeholders[c] |-> StrV(v_Count)])

NextRaise ==
    \/ Construct
    \/ Raise

SpecRaise == InitRaise /\ [][NextRaise]_vars

\* Writes to the retained keyword map between conversions and lookups; every
\* class is called with exactly its replacement fields.
MutStartValues == {IntV(1), StrV(v_Count)}

InitMut ==
    \E c \in Classes : \E a \in [Placeholders[c] -> MutStartValues] : Start(c, a)

NextMut ==
    \/ Construct
    \/ StrConv
    \/ FieldAccess
    \/ SetItem
    \/ DelItem

SpecMut == InitMut /\ [][NextMut]_vars

\* ------------------------------------------------ the documented catalogue
\* The error kinds of the specification's catalogue (section 4.2) with the
\* fields each requires, under the names the classes give them.
RequiredFields ==
    [DataNotFoundError |-> {k_data_path},
     NoCredentialsError |-> {},
     NoRegionError |-> {k_env_var},
     UnknownSignatureVersionError |-> {k_signature_version},
     ServiceNotInRegionError |-> {k_service_name, k_region_name},
     ProfileNotFound |-> {k_profile},
     ConfigParseError |-> {k_path},
     ConfigNotFound |-> {k_path},
     MissingParametersError |-> {k_object_name, k_missing},
     ValidationError |-> {k_value, k_param, k_type_name},
     UnknownKeyError |-> {k_value, k_param, k_choices},
     RangeError |-> {k_param, k_value, k_min_value, k_max_value},
     UnknownParameterError |-> {k_name, k_operation, k_choices},
     UnknownServiceStyle |-> {k_service_style},
     PaginationError |-> {k_message},
     EventNotFound |-> {k_event_name},
     ChecksumError |-> {k_checksum_type, k_expected_checksum, k_actual_checksum},
     UnseekableStreamError |-> {k_stream_object},
     WaiterError |-> {k_name, k_reason},
     IncompleteReadError |-> {k_actual_bytes, k_expected_bytes},
     InvalidExpressionError |-> {k_expression},
     UnknownCredentialError |-> {k_name}]

CatalogKinds == DOMAIN RequiredFields

\* The kinds the catalogue files under the validation category.
NarrowValidationKinds == {"UnknownKeyError", "RangeError", "UnknownParameterError"}

\* The call is of a catalogue kind and has run.
Called == cls \in CatalogKinds /\ pc # "call"

\* ----------------------------------------------------- text helpers of the claims
\* sub occurs in s.
Contains(s, sub) ==
    \/ sub = <<>>
    \/ \E i \in {k \in 1..(Len(s) - Len(sub) + 1) : s[k] = sub[1]} :
          SubSeq(s, i, i + Len(sub) - 1) = sub

\* The placeholder text of field name n.
Braced(n) == <<"{">> \o n \o <<"}">>

\* f with the placeholder of every field of kw replaced, once and from left to
\* right, by the string form of the field's value.
RECURSIVE Substituted(_, _)
Substituted(f, kw) ==
    LET At(i, n) == /\ i + Len(n) + 1 <= Len(f)
                    /\ SubSeq(f, i, i + Len(n) + 1) = Braced(n)
        hits == {i \in {k \in 1..Len(f) : f[k] = "{"} : \E n \in DOMAIN kw : At(i, n)}
        first == CHOOSE i \in hits : \A k \in hits : i <= k
        field == CHOOSE n \in DOMAIN kw : At(first, n)
    IN  IF hits = {} THEN f
        ELSE SubSeq(f, 1, first - 1) \o Str(kw[field])
             \o Substituted(SubSeq(f, first + Len(field) + 2, Len(f)), kw)

\* What the string forms of the fields add to the length of the template.
RECURSIVE Growth(_, _)
Growth(names, kw) ==
    IF names = {} THEN 0
    ELSE LET n == CHOOSE x \in names : TRUE
         IN  Len(Str(kw[n])) - Len(Braced(n)) + Growth(names \ {n}, kw)

\* ------------------------------------------------------------------ claims
\* The call gives exactly the fields the catalogue requires of its kind.
ExactFields == Called /\ DOMAIN args = RequiredFields[cls]

\* C1 as stated: a call of a catalogue kind with exactly its required fields
\* returns an instance whose message is the template with every placeholder
\* replaced by the string form of its field; the message contains the string
\* form of every value and contains the placeholder text of no field of the
\* template.
C1_RenderedNoPlaceholderText ==
    ExactFields =>
        /\ pc = "instance"
        /\ msg = Substituted(ResolveFmt(cls), args)
        /\ \A n \in RequiredFields[cls] : Contains(msg, Str(args[n]))
        /\ \A n \in RequiredFields[cls] : ~Contains(msg, Braced(n))

\* C1 amended: as above, but placeholder text of the template may occur in
\* the message where the string form of a supplied value contains it; every
\* placeholder of the template itself has been replaced.
C1_RenderedFromExactFields ==
    ExactFields =>
        /\ pc = "instance"
        /\ msg = Substituted(ResolveFmt(cls), args)
        /\ \A n \in RequiredFields[cls] : Contains(msg, Str(args[n]))
        /\ \A n \in RequiredFields[cls] :
              Contains(msg, Braced(n)) =>
                  \E m \in RequiredFields[cls] : Contains(Str(args[m]), Braced(n))

\* A range error built from exactly its four fields, one of them an int and
\* one of them the text "{param}".
C1_Witness ==
    /\ pc = "instance"
    /\ cls = "RangeError"
    /\ DOMAIN args = RequiredFields[cls]
    /\ args[k_value] = StrV(v_BraceParam)
    /\ args[k_param] = StrV(v_Count)
    /\ args[k_min_value] = IntV(1)

\* C2: a call of a catalogue kind that gives every required field but one
\* (and no keyword named self) raises KeyError for the missing field out of
\* the constructor: no instance exists, with neither a message nor a keyword
\* map.
C2_MissingFieldRaises ==
    \A f \in (IF Called THEN RequiredFields[cls] ELSE {}) :
        (/\ f \notin DOMAIN args
         /\ RequiredFields[cls] \ {f} \subseteq DOMAIN args
         /\ k_self \notin DOMAIN args) =>
            /\ pc = "raised"
            /\ fault = [type |-> "KeyError", key |-> f]
            /\ msg = <<>>
            /\ kwargs = NoKwargs

\* A range error called without min_value has raised.
C2_Witness ==
    /\ pc = "raised"
    /\ cls = "RangeError"
    /\ DOMAIN args = RequiredFields[cls] \ {k_min_value}

\* C3: an instance of a narrow validation kind raised into a chain of except
\* clauses is received by the first clause when that clause names its own
\* class, ValidationError or BotoCoreError; so a ValidationError clause
\* placed before a BotoCoreError clause receives it.
C3_NarrowKindCaughtByCategory ==
    (last.op = "catch" /\ cls \in NarrowValidationKinds) =>
        /\ last.chain[1] \in {cls, "ValidationError", "BotoCoreError"} => last.idx = 1
        /\ last.idx # 0 =>
              last.chain[last.idx] \in {cls, "ValidationError", "BotoCoreError",
                                        "Exception"}

\* A range error raised into except ValidationError / except BotoCoreError
\* and received by the first clause.
C3_Witness ==
    /\ last.op = "catch"
    /\ cls = "RangeError"
    /\ last.chain = <<"ValidationError", "BotoCoreError">>
    /\ last.idx = 1

\* C4: a lookup in the keyword map of an instance answers, for a name given
\* at construction, the very value given, and for a name not given, Absent:
\* no other value stands in for it.
C4_FieldAccessRoundTrip ==
    (pc = "instance" /\ last.op = "get") =>
        /\ last.name \in DOMAIN args => last.val = args[last.name]
        /\ last.name \notin DOMAIN args => last.val = Absent

\* A lookup of a field that was given an int.
C4_Witness ==
    /\ pc = "instance"
    /\ last.op = "get"
    /\ last.name \in DOMAIN args
    /\ args[last.name] = IntV(50)

\* C5: whatever was written to the keyword map since construction, str() of
\* the instance is the message rendered at construction from the keywords of
\* the call; so any two conversions agree.
C5_StrIsConstructionMessage ==
    (pc = "instance" /\ last.op = "str") =>
        /\ last.text = msg
        /\ last.text = Format(ResolveFmt(cls), args, 1).text

\* A conversion after a write that would change the rendering.
C5_Witness ==
    /\ pc = "instance"
    /\ last.op = "str"
    /\ nmut > 0
    /\ Format(ResolveFmt(cls), kwargs, 1) # Format(ResolveFmt(cls), args, 1)

\* The keywords of the call that the catalogue requires of its kind.
RequiredOnly == [n \in DOMAIN args \cap RequiredFields[cls] |-> args[n]]

\* C6 as stated: a call that gives the required fields and any further
\* keywords returns an instance; its message is the one the call without the
\* further keywords renders, and its keyword map is the whole map of the call.
C6_AnyExtraFieldsKept ==
    (Called /\ RequiredFields[cls] \subseteq DOMAIN args) =>
        /\ pc = "instance"
        /\ msg = Format(ResolveFmt(cls), RequiredOnly, 1).text
        /\ kwargs = args

\* C6 amended: the same for every further keyword but one named self; a call
\* with a keyword named self raises TypeError and leaves no instance.
C6_ExtraFieldsKept ==
    (Called /\ RequiredFields[cls] \subseteq DOMAIN args) =>
        IF k_self \notin DOMAIN args
        THEN /\ pc = "instance"
             /\ msg = Format(ResolveFmt(cls), RequiredOnly, 1).text
             /\ kwargs = args
        ELSE /\ pc = "raised"
             /\ fault = [type |-> "TypeError", key |-> <<>>]
             /\ msg = <<>>
             /\ kwargs = NoKwargs

\* A checksum error given all three fields and two further keywords.
C6_Witness ==
    /\ pc = "instance"
    /\ cls = "ChecksumError"
    /\ DOMAIN args = RequiredFields[cls] \cup {k_other, k_param}

v_RangeCount ==
    <<"V", "a", "l", "u", "e", " ", "o", "u", "t", " ", "o", "f", " ", "r",
      "a", "n", "g", "e", " ", "f", "o", "r", " ", "p", "a", "r", "a", "m",
      " ", "C", "o", "u", "n", "t", ":", " ", "1", " ", "<", "=", " ", "5",
      "0", " ", "<", "=", " ", "1", "0">>

v_RangePrefix ==
    <<"V", "a", "l", "u", "e", " ", "o", "u", "t", " ", "o", "f", " ", "r",
      "a", "n", "g", "e", " ", "f", "o", "r", " ", "p", "a", "r", "a", "m",
      " ">>

RangeCountArgs ==
    [n \in RequiredFields["RangeError"] |->
        IF n = k_param THEN StrV(v_Count)
        ELSE IF n = k_value THEN IntV(50)
        ELSE IF n = k_min_value THEN IntV(1)
        ELSE IntV(10)]

\* C7: RangeError(param="Count", value=50, min_value=1, max_value=10) renders
\* "Value out of range for param Count: 1 <= 50 <= 10", and every range
\* message reads param, min_value, value, max_value in that order.
C7_RangeMessageOrder ==
    (pc = "instance" /\ cls = "RangeError") =>
        /\ args = RangeCountArgs => msg = v_RangeCount
        /\ msg = v_RangePrefix \o Str(args[k_param]) \o <<":", " ">>
                    \o Str(args[k_min_value]) \o <<" ", "<", "=", " ">>
                    \o Str(args[k_value]) \o <<" ", "<", "=", " ">>
                    \o Str(args[k_max_value])

\* The range error of the scenario has been constructed.
C7_Witness == pc = "instance" /\ cls = "RangeError" /\ args = RangeCountArgs

\* The classes that name c as their base.
Subtypes(c) == {k \in Classes : Bases[k] = c}

\* C8: the classes below BotoCoreError are the 22 kinds of the catalogue;
\* ValidationError alone has subclasses, namely the three narrow kinds; every
\* other kind derives from BotoCoreError directly; and an instance of a kind
\* outside the validation family is not received by except ValidationError.
C8_OnlyValidationHasSubtypes ==
    /\ Classes \ {"BotoCoreError"} = CatalogKinds
    /\ Cardinality(Classes \ {"BotoCoreError"}) = 22
    /\ Subtypes("BotoCoreError") = CatalogKinds \ NarrowValidationKinds
    /\ Subtypes("ValidationError") = NarrowValidationKinds
    /\ \A k \in CatalogKinds \ {"ValidationError"} : Subtypes(k) = {}
    /\ (/\ last.op = "catch"
        /\ cls \notin NarrowValidationKinds \cup {"ValidationError"}
        /\ last.chain = <<"ValidationError">>) => last.idx = 0

\* A missing-parameters error raised into except ValidationError propagates.
C8_Witness ==
    /\ last.op = "catch"
    /\ cls = "MissingParametersError"
    /\ last.chain = <<"ValidationError">>
    /\ last.idx = 0

\* C9: a narrow validation kind is constructed exactly when the fields of its
\* own template are given, type_name and (for the unknown parameter) value
\* and param not among them; ValidationError itself raises KeyError unless
\* value, param and type_name are all given.  (Calls with a keyword named
\* self aside, which raise TypeError whatever else they give.)
C9_NarrowKindsOwnTemplate ==
    /\ (Called /\ cls \in NarrowValidationKinds) =>
          /\ DOMAIN args = RequiredFields[cls] => pc = "instance"
          /\ k_self \notin DOMAIN args =>
                (pc = "instance" <=> RequiredFields[cls] \subseteq DOMAIN args)
    /\ (Called /\ cls = "ValidationError" /\ k_self \notin DOMAIN args) =>
          /\ pc = "instance" <=> {k_value, k_param, k_type_name} \subseteq DOMAIN args
          /\ pc # "instance" => pc = "raised" /\ fault.type = "KeyError"

\* An unknown-parameter error constructed from name, operation and choices.
C9_Witness ==
    /\ pc = "instance"
    /\ cls = "UnknownParameterError"
    /\ DOMAIN args = {k_name, k_operation, k_choices}

\* C10: a call that gives every field of the template (and no keyword named
\* self) returns an instance whatever text the values hold; the string form of every value, placeholder
\* text included, stands in the message, and the message is as long as the
\* template with each placeholder exchanged once for its value.
C10_SinglePassSubstitution ==
    (/\ pc # "call"
     /\ Placeholders[cls] \subseteq DOMAIN args
     /\ k_self \notin DOMAIN args) =>
        /\ pc = "instance"
        /\ \A n \in Placeholders[cls] : Contains(msg, Str(args[n]))
        /\ Len(msg) = Len(ResolveFmt(cls)) + Growth(Placeholders[cls], args)

\* A data-not-found error whose data_path is the text "{param}", with a
\* keyword param given besides.
C10_Witness ==
    /\ pc = "instance"
    /\ cls = "DataNotFoundError"
    /\ args[k_data_path] = StrV(v_BraceParam)
    /\ k_param \in DOMAIN args
    /\ args[k_param] = IntV(50)
    /\ Contains(msg, v_BraceParam)
====
